---- MODULE Spec2Model ----
(***************************************************************************)
(* Adaptive histogram equalization of examples/histogram_equalization/     *)
(* hist_equ.py: compute_tiles, compute_interpolation_tiles, compute_luts,  *)
(* compute_luts_optim, compute_equalized_tiles and the re-assembly of      *)
(* main().                                                                 *)
(*                                                                         *)
(* One image, one channel (the batch and channel axes are carried through  *)
(* the source untouched).  An image is a sequence of rows, a row a         *)
(* sequence of pixels.  A pixel value v in [0,1] is kept as its numerator  *)
(* n over the denominator PixDen (v = n / PixDen).  Real arithmetic is     *)
(* exact here: the rounding of float32 is not modelled.                    *)
(*                                                                         *)
(* The functions are actions that fire as soon as their arguments exist:   *)
(* compute_tiles first, then compute_interpolation_tiles and one of the    *)
(* two LUT builders in either order, then compute_equalized_tiles and the  *)
(* re-assembly.  An exception ends the run (failed_at).  Within the bounds *)
(* a tile holds fewer than 256 pixels, so compute_luts (whose step needs   *)
(* 255 pixels outside the last populated bin) always takes its step == 0   *)
(* path here; the LUTs that are not flat come from compute_luts_optim.     *)
(***************************************************************************)
EXTENDS Integers, Sequences, FiniteSets, TLC

VARIABLES imgs,            \* the input image (h rows of w pixels)
          grid_size,       \* <<GH, GW>> as passed by the caller
          even_tile_size,  \* the flag of compute_tiles
          failed_at,       \* "none", or the place where an exception was raised
          pad_called,      \* F.pad (line 161) has been called
          hist_tiles,      \* result of compute_tiles: grid of tiles, <<>> before
          img_padded,      \* result of compute_tiles: padded image, <<>> before
          interp_tiles,    \* result of compute_interpolation_tiles, <<>> before
          luts,            \* result of compute_luts / compute_luts_optim, <<>> before
          lut_variant,     \* "none", "luts" (compute_luts) or "optim" (compute_luts_optim)
          equalized_tiles, \* result of compute_equalized_tiles, <<>> before
          p2               \* the re-assembled, cropped image of main(), <<>> before

vars == <<imgs, grid_size, even_tile_size, failed_at, pad_called, hist_tiles,
          img_padded, interp_tiles, luts, lut_variant, equalized_tiles, p2>>

(***************************************************************************)
(* Bounds of the model.                                                    *)
(***************************************************************************)
MaxDim == 6
MaxGrid == 2
MaxNegGrid == 1
PixDen == 16
MaxBase == 1

GridSizes == (0 - MaxNegGrid)..MaxGrid

(***************************************************************************)
(* The input images: a uniform image holds base * (PixDen \div MaxBase)    *)
(* in every pixel; in the others the value grows by one level from a pixel *)
(* to the next (row by row, modulo PixDen + 1), so neighbours differ.      *)
(***************************************************************************)
TestImage(h, w, base, uniform) ==
    [y \in 1..h |-> [x \in 1..w |->
        IF uniform THEN base * (PixDen \div MaxBase)
        ELSE (base * (PixDen \div MaxBase) + (y - 1) * w + (x - 1)) % (PixDen + 1)]]

Height(im) == Len(im)
Width(im) == IF Len(im) = 0 THEN 0 ELSE Len(im[1])

(***************************************************************************)
(* compute_tiles, lines 147-158: the geometry.                             *)
(***************************************************************************)
\* a slip: the quotient rounded down (h // grid_size[0])
CeilAsFloor(a, b) == a \div b

\* math.ceil(a / b), b # 0
Ceil(a, b) == 0 - ((0 - a) \div b)

\* lines 149-154: kernel_vert / kernel_horz
KernelSize(dim, g, even) ==
    LET k == Ceil(dim, g)
    IN  IF even THEN k + (IF k % 2 # 0 THEN 1 ELSE 0) ELSE k

\* lines 157-158: pad_vert / pad_horz
PadSize(dim, g, even) == KernelSize(dim, g, even) * g - dim

(***************************************************************************)
(* F.pad(batch, [0, pad_horz, 0, pad_vert], mode='reflect'), line 161.     *)
(* Reflection mirrors around the last row / column without repeating it:   *)
(* new row h + k (k >= 1) is row h - k.  torch raises when a padding is    *)
(* not smaller than the dimension it pads.                                 *)
(***************************************************************************)
ReflectOk(dim, pad) == pad < dim

ReflectIndex(dim, k) == IF k <= dim THEN k ELSE 2 * dim - k

ReflectPad(im, pad_vert, pad_horz) ==
    LET h == Height(im)
        w == Width(im)
    IN  [y \in 1..(h + pad_vert) |-> [x \in 1..(w + pad_horz) |->
            im[ReflectIndex(h, y)][ReflectIndex(w, x)]]]

(***************************************************************************)
(* Tensor.unfold(dim, size, step) with size = step, applied to the rows    *)
(* and then to the columns (lines 165-168 and 197-200): window a of the    *)
(* rows holds rows (a-1)*kv+1 .. a*kv, and there are (n - kv) div kv + 1   *)
(* windows.                                                                *)
(***************************************************************************)
UnfoldCount(n, k) == IF n < k THEN 0 ELSE (n - k) \div k + 1

Unfold(im, kv, kh) ==
    [a \in 1..UnfoldCount(Height(im), kv) |->
        [b \in 1..UnfoldCount(Width(im), kh) |->
            [y \in 1..kv |-> [x \in 1..kh |->
                im[(a - 1) * kv + y][(b - 1) * kh + x]]]]]

GridRows(tiles) == Len(tiles)
GridCols(tiles) == IF Len(tiles) = 0 THEN 0 ELSE Len(tiles[1])
TileHeight(tiles) == Len(tiles[1][1])
TileWidth(tiles) == Len(tiles[1][1][1])

(***************************************************************************)
(* The state after construction: an image, a grid and the flag chosen by   *)
(* the caller; nothing computed yet.                                       *)
(***************************************************************************)
Init ==
    /\ \E h \in 1..MaxDim, w \in 1..MaxDim, base \in 0..MaxBase, uniform \in BOOLEAN :
          imgs = TestImage(h, w, base, uniform)
    /\ grid_size \in GridSizes \X GridSizes
    /\ even_tile_size \in BOOLEAN
    /\ failed_at = "none"
    /\ pad_called = FALSE
    /\ hist_tiles = <<>>
    /\ img_padded = <<>>
    /\ interp_tiles = <<>>
    /\ luts = <<>>
    /\ lut_variant = "none"
    /\ equalized_tiles = <<>>
    /\ p2 = <<>>

Started == hist_tiles = <<>> /\ failed_at = "none"

(***************************************************************************)
(* compute_tiles(imgs, grid_size, even_tile_size), lines 128-171.          *)
(*  - a zero grid size: ZeroDivisionError at line 149 / 150;               *)
(*  - a negative grid size: the kernel size is <= 0; F.pad is still called *)
(*    when the other axis needs padding (it raises or crops, torch         *)
(*    decides), and unfold raises on a step <= 0 (lines 166-167);          *)
(*  - a padding not smaller than the padded dimension: F.pad raises.       *)
(***************************************************************************)
ComputeTilesFail(where, padded) ==
    /\ failed_at' = where
    /\ pad_called' = padded
    /\ UNCHANGED <<imgs, grid_size, even_tile_size, hist_tiles, img_padded,
                   interp_tiles, luts, lut_variant, equalized_tiles, p2>>

ComputeTiles ==
    /\ Started
    /\ LET h == Height(imgs)
           w == Width(imgs)
           gh == grid_size[1]
           gw == grid_size[2]
       IN  IF gh = 0 \/ gw = 0
           THEN ComputeTilesFail("geometry", FALSE)
           ELSE LET kernel_vert == KernelSize(h, gh, even_tile_size)
                    kernel_horz == KernelSize(w, gw, even_tile_size)
                    pad_vert == PadSize(h, gh, even_tile_size)
                    pad_horz == PadSize(w, gw, even_tile_size)
                    padding == pad_vert > 0 \/ pad_horz > 0
                IN  IF padding /\ ~(ReflectOk(h, pad_vert) /\ ReflectOk(w, pad_horz))
                    THEN ComputeTilesFail("pad", TRUE)
                    ELSE IF kernel_vert <= 0 \/ kernel_horz <= 0
                    THEN \/ ComputeTilesFail("unfold", padding)
                         \/ padding /\ ComputeTilesFail("pad", TRUE)
                    ELSE LET batch == IF padding THEN ReflectPad(imgs, pad_vert, pad_horz)
                                      ELSE imgs
                             tiles == Unfold(batch, kernel_vert, kernel_horz)
                         IN  IF GridRows(tiles) # gh \/ GridCols(tiles) # gw
                             THEN ComputeTilesFail("assert", padding)
                             ELSE /\ hist_tiles' = tiles
                                  /\ img_padded' = batch
                                  /\ pad_called' = padding
                                  /\ UNCHANGED <<imgs, grid_size, even_tile_size, failed_at,
                                                 interp_tiles, luts, lut_variant,
                                                 equalized_tiles, p2>>

(***************************************************************************)
(* compute_interpolation_tiles(padded_imgs, tile_size), lines 174-204,     *)
(* called as in main() with the padded image and the tile size of          *)
(* compute_tiles.  A tile size of 1 gives a kernel of 0 and unfold raises; *)
(* an odd tile size fails the asserts of lines 202-203.                    *)
(***************************************************************************)
InterpFail(where) ==
    /\ failed_at' = where
    /\ UNCHANGED <<imgs, grid_size, even_tile_size, pad_called, hist_tiles, img_padded,
                   interp_tiles, luts, lut_variant, equalized_tiles, p2>>

ComputeInterpolationTiles ==
    /\ hist_tiles # <<>>
    /\ failed_at = "none"
    /\ interp_tiles = <<>>
    /\ LET tile_size == <<TileHeight(hist_tiles), TileWidth(hist_tiles)>>
           interp_kernel_vert == tile_size[1] \div 2
           interp_kernel_horz == tile_size[2] \div 2
       IN  IF Height(img_padded) % tile_size[1] # 0 \/ Width(img_padded) % tile_size[2] # 0
           THEN InterpFail("interp_assert")
           ELSE IF interp_kernel_vert <= 0 \/ interp_kernel_horz <= 0
           THEN InterpFail("interp_unfold")
           ELSE IF 2 * interp_kernel_vert # tile_size[1] \/ 2 * interp_kernel_horz # tile_size[2]
           THEN InterpFail("interp_assert")
           ELSE /\ interp_tiles' = Unfold(img_padded, interp_kernel_vert, interp_kernel_horz)
                /\ UNCHANGED <<imgs, grid_size, even_tile_size, failed_at, pad_called,
                               hist_tiles, img_padded, luts, lut_variant,
                               equalized_tiles, p2>>

(***************************************************************************)
(* The re-assembly of main(), lines 391-394 (and 408-411):                 *)
(*   p1 = torch.cat(tiles.unbind(2), 4)   tiles of a grid row, side by side *)
(*   p2 = torch.cat(p1.unbind(1), 2)      the grid rows, one below another  *)
(*   p2 = p2[..., :h, :w]                 the crop                          *)
(***************************************************************************)
RECURSIVE CatWidthReversed(_, _)
\* a slip: every tile put to the left of the tiles before it
CatWidthReversed(row_tiles, n) ==
    IF n = 0 THEN [y \in 1..Len(row_tiles[1]) |-> <<>>]
    ELSE LET left == CatWidthReversed(row_tiles, n - 1)
         IN  [y \in 1..Len(row_tiles[1]) |-> row_tiles[n][y] \o left[y]]

RECURSIVE CatWidth(_, _)
\* the first n tiles of a grid row, concatenated along the width
CatWidth(row_tiles, n) ==
    IF n = 0 THEN [y \in 1..Len(row_tiles[1]) |-> <<>>]
    ELSE LET left == CatWidth(row_tiles, n - 1)
         IN  [y \in 1..Len(row_tiles[1]) |-> left[y] \o row_tiles[n][y]]

RECURSIVE CatHeight(_, _)
\* the first n grid rows, each already concatenated, one below another
CatHeight(tiles, n) ==
    IF n = 0 THEN <<>>
    ELSE CatHeight(tiles, n - 1) \o CatWidth(tiles[n], Len(tiles[n]))

Assemble(tiles) == CatHeight(tiles, Len(tiles))

Crop(im, h, w) == [y \in 1..h |-> SubSeq(im[y], 1, w)]

(***************************************************************************)
(* The histogram of a tile: torch.histc(patch, bins=256, min=0, max=1),    *)
(* lines 225 and 266.  A value v falls in bin floor(256 v), and v = 1 in   *)
(* the last bin.                                                           *)
(***************************************************************************)
Bins == 0..255

HistcBin(n) == IF (n * 256) \div PixDen > 255 THEN 255 ELSE (n * 256) \div PixDen

TilePositions(patch) == (1..Len(patch)) \X (1..Len(patch[1]))

\* the histogram, as the count of every populated bin (the other bins hold 0)
Histc(patch) ==
    LET bin == [pos \in TilePositions(patch) |-> HistcBin(patch[pos[1]][pos[2]])]
    IN  [i \in {bin[pos] : pos \in TilePositions(patch)} |->
            Cardinality({pos \in TilePositions(patch) : bin[pos] = i})]

\* the populated bins (histo > 0.999, line 231; the counts are whole numbers)
NonZero(histo) == {i \in DOMAIN histo : histo[i] > 0}

RECURSIVE SumOver(_, _)
SumOver(histo, S) ==
    IF S = {} THEN 0
    ELSE LET k == CHOOSE k \in S : TRUE
         IN  histo[k] + SumOver(histo, S \ {k})

\* torch.cumsum(histo, 0)[i]; nonzero are the populated bins of histo
CumSum(histo, nonzero, i) == SumOver(histo, {k \in nonzero : k <= i})

\* Tensor.clamp(0, 255) of a finite value
Clamp(v) == IF v < 0 THEN 0 ELSE IF v > 255 THEN 255 ELSE v

SetMax(S) == CHOOSE m \in S : \A k \in S : k <= m

(***************************************************************************)
(* compute_luts.lut(patch), lines 217-241 (diff = False).                  *)
(***************************************************************************)
\* lines 231-236: step
LutStep(histo) ==
    LET nonzero == NonZero(histo)
    IN  IF nonzero # {}
        THEN (SumOver(histo, nonzero) - histo[SetMax(nonzero)]) \div 255
        ELSE 0

\* lines 237-241
Lut(patch) ==
    LET histo == Histc(patch)
        nonzero == NonZero(histo)
        step == LutStep(histo)
    IN  IF step = 0
        THEN [i \in Bins |-> 0]
        ELSE [i \in Bins |->
                IF i = 0 THEN 0
                ELSE Clamp((CumSum(histo, nonzero, i - 1) + (step \div 2)) \div step)]

(***************************************************************************)
(* compute_luts_optim, lines 261-276 (diff = False).                       *)
(* step = (pixels - 1) / 255 is a float, kept here as the fraction         *)
(* (pixels - 1) / 255; step // 2 = floor((pixels - 1) / 510).  With one    *)
(* pixel the step is 0.0 and the floor division by it gives nan for a      *)
(* cumulative count of 0 and inf otherwise; clamp(0, 255) turns inf into   *)
(* 255 and leaves nan.                                                     *)
(***************************************************************************)
\* the float nan as an entry of a LUT (no finite entry is negative)
NaN == 0 - 1

\* line 272, the numerator of step over the denominator 255
OptimStepNum(pixels) == pixels - 1

\* line 273, one entry: (cum + (step // 2)) // step, then the clamp of line 274
OptimRawEntry(cum, pixels) ==
    IF OptimStepNum(pixels) = 0
    THEN IF cum = 0 THEN NaN ELSE 255
    ELSE Clamp(((cum + (OptimStepNum(pixels) \div 510)) * 255) \div OptimStepNum(pixels))

LutOptim(patch) ==
    LET histo == Histc(patch)
        nonzero == NonZero(histo)
        pixels == Len(patch) * Len(patch[1])
    IN  [i \in Bins |->
            IF i = 0 THEN 0 ELSE OptimRawEntry(CumSum(histo, nonzero, i - 1), pixels)]

(***************************************************************************)
(* compute_luts (lines 245-248) and compute_luts_optim (lines 261-276):    *)
(* one LUT per statistics tile.                                            *)
(***************************************************************************)
\* a run builds its LUTs once, with one of the two builders
CanComputeLuts ==
    /\ hist_tiles # <<>>
    /\ failed_at = "none"
    /\ luts = <<>>

ComputeLuts ==
    /\ CanComputeLuts
    /\ luts' = [a \in 1..GridRows(hist_tiles) |->
                   [b \in 1..GridCols(hist_tiles) |-> Lut(hist_tiles[a][b])]]
    /\ lut_variant' = "luts"
    /\ UNCHANGED <<imgs, grid_size, even_tile_size, failed_at, pad_called, hist_tiles,
                   img_padded, interp_tiles, equalized_tiles, p2>>

ComputeLutsOptim ==
    /\ CanComputeLuts
    /\ luts' = [a \in 1..GridRows(hist_tiles) |->
                   [b \in 1..GridCols(hist_tiles) |-> LutOptim(hist_tiles[a][b])]]
    /\ lut_variant' = "optim"
    /\ UNCHANGED <<imgs, grid_size, even_tile_size, failed_at, pad_called, hist_tiles,
                   img_padded, interp_tiles, equalized_tiles, p2>>

(***************************************************************************)
(* compute_equalized_tiles(interp_tiles, luts), lines 279-352.             *)
(* gh, gw are the numbers of query tiles (twice the grid), th, tw the size *)
(* of a query tile; j, i count the query tiles from 0 as the source does.  *)
(***************************************************************************)
\* line 308: (interp_tiles * 255).long()
Quantize(n) == (n * 255) \div PixDen

\* lines 301-304: the weights are WeightNum / WeightDen; half s (0 or 1) of
\* the ramp arange(2n - 1, -1, -1) / (2n - 1), position k (from 1) in the half
WeightDen(n) == 2 * n - 1
WeightNum(n, s, k) == (2 * n - 1) - (s * n + (k - 1))

\* a slip: ih[j % 2]
WeightHalfSwapped(j) == j % 2

\* ih[(j + 1) % 2] and iw[(i + 1) % 2]
WeightHalf(j) == (j + 1) % 2

PyMax(a, b) == IF a >= b THEN a ELSE b

\* the indices of the LUTs read for query row j (or column i)
ParentIdx(j) == j \div 2
UpperIdx(j) == PyMax(0, (j \div 2) + (j % 2) - 1)
\* a slip: the tile after the parent, whatever the parity
LowerIdxNext(j) == (j \div 2) + 1
LowerIdx(j) == (j \div 2) + (j % 2)

\* a slip: the corner test without "or j == gh - 1"
RegionTopCornersOnly(j, i, gh, gw) ==
    IF (i = 0 \/ i = gw - 1) /\ j = 0 THEN "corner"
    ELSE IF i = 0 \/ i = gw - 1 THEN "border_h"
    ELSE IF j = 0 \/ j = gh - 1 THEN "border_w"
    ELSE "internal"

\* lines 313, 321, 331: the if / continue chain
Region(j, i, gh, gw) ==
    IF (i = 0 \/ i = gw - 1) /\ (j = 0 \/ j = gh - 1) THEN "corner"
    ELSE IF i = 0 \/ i = gw - 1 THEN "border_h"
    ELSE IF j = 0 \/ j = gh - 1 THEN "border_w"
    ELSE "internal"

\* the <<row, column>> of every LUT read for query tile (j, i)
LutReads(j, i, gh, gw) ==
    LET region == Region(j, i, gh, gw)
    IN  IF region = "corner" THEN {<<ParentIdx(j), ParentIdx(i)>>}
        ELSE IF region = "border_h"
        THEN {<<UpperIdx(j), ParentIdx(i)>>, <<LowerIdx(j), ParentIdx(i)>>}
        ELSE IF region = "border_w"
        THEN {<<ParentIdx(j), UpperIdx(i)>>, <<ParentIdx(j), LowerIdx(i)>>}
        ELSE {UpperIdx(j), LowerIdx(j)} \X {UpperIdx(i), LowerIdx(i)}

\* luts[im, r, c] gathered at index q
Gather(tbl, r, c, q) == tbl[r + 1][c + 1][q]

\* The value stored in tiles_equalized[im, j, i] at row y, column x (from 1)
\* for a pixel whose quantized value is q.  The blend is a float, stored in
\* a tensor of integers: the fraction is cut off.
EqualizedPixel(tbl, gh, gw, th, tw, j, i, y, x, q) ==
    LET region == Region(j, i, gh, gw)
        dh == WeightDen(th)
        dw == WeightDen(tw)
        nh == WeightNum(th, WeightHalf(j), y)
        nw == WeightNum(tw, WeightHalf(i), x)
    IN  IF region = "corner" THEN Gather(tbl, ParentIdx(j), ParentIdx(i), q)
        ELSE IF region = "border_h"
        THEN LET t == Gather(tbl, UpperIdx(j), ParentIdx(i), q)
                 b == Gather(tbl, LowerIdx(j), ParentIdx(i), q)
             IN  (nh * (t - b) + b * dh) \div dh
        ELSE IF region = "border_w"
        THEN LET l == Gather(tbl, ParentIdx(j), UpperIdx(i), q)
                 r == Gather(tbl, ParentIdx(j), LowerIdx(i), q)
             IN  (nw * (l - r) + r * dw) \div dw
        ELSE LET tl == Gather(tbl, UpperIdx(j), UpperIdx(i), q)
                 tr == Gather(tbl, UpperIdx(j), LowerIdx(i), q)
                 bl == Gather(tbl, LowerIdx(j), UpperIdx(i), q)
                 br == Gather(tbl, LowerIdx(j), LowerIdx(i), q)
                 t == nw * (tl - tr) + tr * dw
                 b == nw * (bl - br) + br * dw
             IN  (nh * (t - b) + b * dh) \div (dw * dh)

ComputeEqualizedTiles ==
    /\ interp_tiles # <<>>
    /\ luts # <<>>
    /\ failed_at = "none"
    /\ equalized_tiles = <<>>
    /\ LET gh == GridRows(interp_tiles)
           gw == GridCols(interp_tiles)
           th == TileHeight(interp_tiles)
           tw == TileWidth(interp_tiles)
           reads == UNION {LutReads(j, i, gh, gw) : j \in 0..(gh - 1), i \in 0..(gw - 1)}
       IN  IF \E rc \in reads : rc[1] >= GridRows(luts) \/ rc[2] >= GridCols(luts)
           THEN /\ failed_at' = "equalize_index"
                /\ UNCHANGED equalized_tiles
           ELSE /\ equalized_tiles' =
                      [jj \in 1..gh |-> [ii \in 1..gw |->
                          [y \in 1..th |-> [x \in 1..tw |->
                              EqualizedPixel(luts, gh, gw, th, tw, jj - 1, ii - 1, y, x,
                                             Quantize(interp_tiles[jj][ii][y][x]))]]]]
                /\ UNCHANGED failed_at
    /\ UNCHANGED <<imgs, grid_size, even_tile_size, pad_called, hist_tiles, img_padded,
                   interp_tiles, luts, lut_variant, p2>>

(***************************************************************************)
(* main(), lines 391-394: the equalized tiles put together and cropped.    *)
(***************************************************************************)
Composite ==
    /\ equalized_tiles # <<>>
    /\ failed_at = "none"
    /\ p2 = <<>>
    /\ p2' = Crop(Assemble(equalized_tiles), Height(imgs), Width(imgs))
    /\ UNCHANGED <<imgs, grid_size, even_tile_size, failed_at, pad_called, hist_tiles,
                   img_padded, interp_tiles, luts, lut_variant, equalized_tiles>>

Next ==
    \/ ComputeTiles
    \/ ComputeInterpolationTiles
    \/ ComputeLuts
    \/ ComputeLutsOptim
    \/ ComputeEqualizedTiles
    \/ Composite

Spec == Init /\ [][Next]_vars

(***************************************************************************)
(* Shorthands for the properties.                                          *)
(***************************************************************************)
ImgHeight == Height(imgs)
ImgWidth == Width(imgs)
ValidGrid == grid_size[1] >= 1 /\ grid_size[2] >= 1
Tiled == hist_tiles # <<>>
IsUniformImage == \A y \in 1..ImgHeight, x \in 1..ImgWidth : imgs[y][x] = imgs[1][1]

(***************************************************************************)
(* C1.  compute_tiles geometry: for a grid of at least 1 x 1 and either    *)
(* value of even_tile_size, the tile size TH x TW covers the image         *)
(* (TH*GH >= h, TW*GW >= w), the paddings TH*GH - h and TW*GW - w are not  *)
(* negative, and TH (TW) is the smallest integer, or the smallest even     *)
(* integer when even_tile_size is set, with that property.  The tiles and  *)
(* the padded image returned have these sizes.                             *)
(***************************************************************************)
Covers(k, g, dim) == k * g >= dim

IsMinimalKernel(k, g, dim, even) ==
    /\ k >= 1
    /\ Covers(k, g, dim)
    /\ even => k % 2 = 0
    /\ \A m \in 1..(k - 1) : (even => m % 2 = 0) => ~Covers(m, g, dim)

C1_GridGeometry ==
    ValidGrid =>
        LET th == KernelSize(ImgHeight, grid_size[1], even_tile_size)
            tw == KernelSize(ImgWidth, grid_size[2], even_tile_size)
        IN  /\ IsMinimalKernel(th, grid_size[1], ImgHeight, even_tile_size)
            /\ IsMinimalKernel(tw, grid_size[2], ImgWidth, even_tile_size)
            /\ PadSize(ImgHeight, grid_size[1], even_tile_size) = th * grid_size[1] - ImgHeight
            /\ PadSize(ImgWidth, grid_size[2], even_tile_size) = tw * grid_size[2] - ImgWidth
            /\ PadSize(ImgHeight, grid_size[1], even_tile_size) >= 0
            /\ PadSize(ImgWidth, grid_size[2], even_tile_size) >= 0
            /\ Tiled =>
                 /\ TileHeight(hist_tiles) = th
                 /\ TileWidth(hist_tiles) = tw
                 /\ Height(img_padded) = th * grid_size[1]
                 /\ Width(img_padded) = tw * grid_size[2]

\* tiles were computed, with an odd quotient bumped to an even tile height
\* and rows and columns padded
C1_Witness ==
    /\ Tiled
    /\ even_tile_size
    /\ TileHeight(hist_tiles) = Ceil(ImgHeight, grid_size[1]) + 1
    /\ Height(img_padded) > ImgHeight
    /\ Width(img_padded) > ImgWidth
    /\ grid_size[1] > 1

(***************************************************************************)
(* C2.  For a statistics tile whose pixels all have the same value, the    *)
(* LUT is the all-zero table of 256 entries, with compute_luts and with    *)
(* compute_luts_optim alike.                                               *)
(***************************************************************************)
IsUniformTile(patch) ==
    \A pos \in TilePositions(patch) : patch[pos[1]][pos[2]] = patch[1][1]

ZeroLut == [i \in Bins |-> 0]

C2_UniformTileZeroLut ==
    luts # <<>> =>
        \A a \in 1..GridRows(hist_tiles), b \in 1..GridCols(hist_tiles) :
            IsUniformTile(hist_tiles[a][b]) => luts[a][b] = ZeroLut

(***************************************************************************)
(* C3.  The two step formulas agree: the step of compute_luts (cumulative  *)
(* mass minus the count of the last populated bin, floor-divided by 255)   *)
(* equals the step (pixels - 1) / 255 of compute_luts_optim, and the two   *)
(* builders give the same LUT for the same tile.                           *)
(***************************************************************************)
C3_StepFormulasAgree ==
    luts # <<>> =>
        \A a \in 1..GridRows(hist_tiles), b \in 1..GridCols(hist_tiles) :
            LET patch == hist_tiles[a][b]
            IN  /\ LutStep(Histc(patch)) * 255 = OptimStepNum(Len(patch) * Len(patch[1]))
                /\ luts[a][b] = Lut(patch)
                /\ luts[a][b] = LutOptim(patch)

(***************************************************************************)
(* C5.  Every LUT has exactly the 256 entries 0..255, every entry is an    *)
(* integer in [0, 255], entry 0 is 0, and the table is all zero or         *)
(* non-decreasing along the bin index.                                     *)
(***************************************************************************)
IsWellFormedLut(lut) ==
    /\ DOMAIN lut = Bins
    /\ \A i \in Bins : lut[i] \in 0..255
    /\ lut[0] = 0
    /\ lut = ZeroLut \/ \A i \in 1..255 : lut[i - 1] <= lut[i]

C5_LutWellFormed ==
    luts # <<>> =>
        \A a \in 1..GridRows(hist_tiles), b \in 1..GridCols(hist_tiles) :
            IsWellFormedLut(luts[a][b])

(***************************************************************************)
(* C7.  A grid size that is zero or negative in either axis is rejected by *)
(* the geometry step: compute_tiles fails there, before F.pad is called    *)
(* and before any tile is extracted, and nothing is returned.              *)
(***************************************************************************)
C7_InvalidGridRejectedUpFront ==
    (~ValidGrid /\ ~Started) =>
        /\ failed_at = "geometry"
        /\ ~pad_called
        /\ hist_tiles = <<>> /\ img_padded = <<>> /\ interp_tiles = <<>>
        /\ luts = <<>> /\ equalized_tiles = <<>> /\ p2 = <<>>

(***************************************************************************)
(* C9.  For every image and every grid of at least 1 x 1 the paddings are  *)
(* at most h - 1 and w - 1, what reflection can supply, so compute_tiles   *)
(* returns a padded image of TH*GH rows and TW*GW columns.                 *)
(***************************************************************************)
C9_ReflectionCanSupplyPadding ==
    (ValidGrid /\ ~Started) =>
        /\ PadSize(ImgHeight, grid_size[1], even_tile_size) <= ImgHeight - 1
        /\ PadSize(ImgWidth, grid_size[2], even_tile_size) <= ImgWidth - 1
        /\ failed_at # "pad"
        /\ Height(img_padded) = KernelSize(ImgHeight, grid_size[1], even_tile_size) * grid_size[1]
        /\ Width(img_padded) = KernelSize(ImgWidth, grid_size[2], even_tile_size) * grid_size[2]

(***************************************************************************)
(* C6.  Tile extraction and re-assembly are inverse on the padded image.   *)
(* The GH x GW statistics tiles and (tile sizes being even) the 2GH x 2GW  *)
(* query tiles each partition the padded image: tile (a, b) holds exactly  *)
(* the padded pixels of its block, and the blocks fill the image.  The     *)
(* four query tiles (2a,2b), (2a,2b+1), (2a+1,2b), (2a+1,2b+1) put         *)
(* together are statistics tile (a, b).  Concatenating the tiles of each   *)
(* grid row along the width and the rows along the height gives the padded *)
(* image back, and cropping it to h x w gives the original image.          *)
(***************************************************************************)
IsPartitionOf(tiles, im) ==
    LET th == TileHeight(tiles)
        tw == TileWidth(tiles)
    IN  /\ GridRows(tiles) * th = Height(im)
        /\ GridCols(tiles) * tw = Width(im)
        /\ \A a \in 1..GridRows(tiles), b \in 1..GridCols(tiles) :
              /\ Len(tiles[a][b]) = th
              /\ \A y \in 1..th :
                    /\ Len(tiles[a][b][y]) = tw
                    /\ \A x \in 1..tw :
                          tiles[a][b][y][x] = im[(a - 1) * th + y][(b - 1) * tw + x]

C6_TilesRoundTrip ==
    /\ (even_tile_size /\ Tiled) =>
          /\ TileHeight(hist_tiles) % 2 = 0
          /\ TileWidth(hist_tiles) % 2 = 0
          /\ failed_at = "none"
    /\ Tiled =>
          /\ GridRows(hist_tiles) = grid_size[1]
          /\ GridCols(hist_tiles) = grid_size[2]
          /\ IsPartitionOf(hist_tiles, img_padded)
          /\ Assemble(hist_tiles) = img_padded
          /\ Crop(Assemble(hist_tiles), ImgHeight, ImgWidth) = imgs
    /\ interp_tiles # <<>> =>
          /\ GridRows(interp_tiles) = 2 * grid_size[1]
          /\ GridCols(interp_tiles) = 2 * grid_size[2]
          /\ IsPartitionOf(interp_tiles, img_padded)
          /\ \A a \in 1..grid_size[1], b \in 1..grid_size[2] :
                Assemble(<< <<interp_tiles[2 * a - 1][2 * b - 1], interp_tiles[2 * a - 1][2 * b]>>,
                            <<interp_tiles[2 * a][2 * b - 1], interp_tiles[2 * a][2 * b]>> >>)
                    = hist_tiles[a][b]
          /\ Assemble(interp_tiles) = img_padded
          /\ Crop(Assemble(interp_tiles), ImgHeight, ImgWidth) = imgs

\* query tiles of a padded, non-uniform image on a 2 x 2 grid were extracted
C6_Witness ==
    /\ interp_tiles # <<>>
    /\ even_tile_size
    /\ pad_called
    /\ Height(img_padded) > ImgHeight /\ Width(img_padded) > ImgWidth
    /\ grid_size = <<2, 2>>
    /\ ~IsUniformImage
    /\ TileHeight(interp_tiles) > 1 /\ TileWidth(interp_tiles) > 1

(***************************************************************************)
(* C10.  The LUT indices of compute_equalized_tiles are in bounds.  Every  *)
(* query tile (j, i), 0 <= j < 2GH, 0 <= i < 2GW, takes exactly one of the *)
(* cases corner / horizontal border / vertical border / interior; every    *)
(* LUT row it reads lies in [0, GH) and every column in [0, GW); and where *)
(* j//2 + j%2 - 1 is negative the clamped index equals j//2 + j%2.         *)
(***************************************************************************)
IsEdge(k, n) == k = 0 \/ k = n - 1

C10_LutIndexInBounds ==
    /\ interp_tiles # <<>> =>
          LET gh == GridRows(interp_tiles)
              gw == GridCols(interp_tiles)
          IN  /\ gh = 2 * GridRows(hist_tiles)
              /\ gw = 2 * GridCols(hist_tiles)
              /\ \A j \in 0..(gh - 1), i \in 0..(gw - 1) :
                    /\ Region(j, i, gh, gw) = "corner" <=> (IsEdge(i, gw) /\ IsEdge(j, gh))
                    /\ Region(j, i, gh, gw) = "border_h" <=> (IsEdge(i, gw) /\ ~IsEdge(j, gh))
                    /\ Region(j, i, gh, gw) = "border_w" <=> (~IsEdge(i, gw) /\ IsEdge(j, gh))
                    /\ Region(j, i, gh, gw) = "internal" <=> (~IsEdge(i, gw) /\ ~IsEdge(j, gh))
                    /\ \A rc \in LutReads(j, i, gh, gw) :
                          /\ 0 <= rc[1] /\ rc[1] < GridRows(hist_tiles)
                          /\ 0 <= rc[2] /\ rc[2] < GridCols(hist_tiles)
                    /\ ParentIdx(j) \in 0..(GridRows(hist_tiles) - 1)
                    /\ ParentIdx(i) \in 0..(GridCols(hist_tiles) - 1)
                    /\ ~IsEdge(j, gh) =>
                          {UpperIdx(j), LowerIdx(j)} \subseteq 0..(GridRows(hist_tiles) - 1)
                    /\ ~IsEdge(i, gw) =>
                          {UpperIdx(i), LowerIdx(i)} \subseteq 0..(GridCols(hist_tiles) - 1)
                    /\ (j \div 2) + (j % 2) - 1 < 0 => UpperIdx(j) = LowerIdx(j)
                    /\ (i \div 2) + (i % 2) - 1 < 0 => UpperIdx(i) = LowerIdx(i)
    /\ failed_at # "equalize_index"

\* tiles of a 2 x 2 grid were equalized: corners, both borders and interior
C10_Witness ==
    /\ equalized_tiles # <<>>
    /\ grid_size = <<2, 2>>
    /\ \E j \in 0..3, i \in 0..3 : Region(j, i, 4, 4) = "internal"
    /\ \E j \in 0..3, i \in 0..3 : Region(j, i, 4, 4) = "border_h"
    /\ \E j \in 0..3, i \in 0..3 : Region(j, i, 4, 4) = "border_w"

(***************************************************************************)
(* C4.  With a 1 x 1 grid each of the 2 x 2 query tiles is classified as a *)
(* corner.  For any grid a corner query tile (i in {0, 2GW-1}, j in        *)
(* {0, 2GH-1}) is mapped by the LUT of its parent statistics tile          *)
(* (j//2, i//2) alone: each output pixel is lut[parent][floor(255*pixel)]. *)
(* So for the 1 x 1 grid the equalized image is the one LUT applied to     *)
(* every pixel of the image.                                               *)
(***************************************************************************)
C4_CornerSingleLut ==
    /\ (grid_size = <<1, 1>> /\ interp_tiles # <<>>) =>
          /\ GridRows(interp_tiles) = 2 /\ GridCols(interp_tiles) = 2
          /\ \A j \in 0..1, i \in 0..1 : Region(j, i, 2, 2) = "corner"
    /\ equalized_tiles # <<>> =>
          LET gh == GridRows(interp_tiles)
              gw == GridCols(interp_tiles)
          IN  \A j \in {0, gh - 1}, i \in {0, gw - 1} :
                 \A y \in 1..TileHeight(interp_tiles), x \in 1..TileWidth(interp_tiles) :
                    equalized_tiles[j + 1][i + 1][y][x] =
                        luts[(j \div 2) + 1][(i \div 2) + 1]
                            [(255 * interp_tiles[j + 1][i + 1][y][x]) \div PixDen]
    /\ (grid_size = <<1, 1>> /\ p2 # <<>>) =>
          /\ Len(p2) = ImgHeight
          /\ \A y \in 1..ImgHeight :
                /\ Len(p2[y]) = ImgWidth
                /\ \A x \in 1..ImgWidth :
                      p2[y][x] = luts[1][1][(255 * imgs[y][x]) \div PixDen]

\* a padded, non-uniform image was equalized on the 1 x 1 grid with a LUT
\* that is not flat, and re-assembled
C4_Witness ==
    /\ p2 # <<>>
    /\ grid_size = <<1, 1>>
    /\ pad_called
    /\ ~IsUniformImage
    /\ \E y \in 1..ImgHeight, x \in 1..ImgWidth : p2[y][x] # p2[1][1]

(***************************************************************************)
(* C8.  Blending is continuous across the query-tile boundaries.           *)
(* Vertically: for k in 1..GH-1 the query rows j = 2k-1 and j = 2k use the *)
(* LUT rows (k-1, k) and their weights are the one ramp                    *)
(* (2th-1-r)/(2th-1), r = 0..2th-1, over the 2th pixel rows of the pair (1 *)
(* on the first, 0 on the last); at the boundary between j = 2k and        *)
(* j = 2k+1 the last pixel row above and the first below are both mapped   *)
(* by LUT row k alone, so the same raw value gets the same output on both  *)
(* sides (checked for the raw values of the two pixels that face each      *)
(* other across the boundary).  Horizontally the same holds for the        *)
(* columns.  Every equalized pixel is the blend, with these weights, of    *)
(* the LUTs of its pair.                                                   *)
(***************************************************************************)
\* the pair of LUT indices and the weight (numerator, denominator) of the
\* first one, for position k (from 1) of query tile j out of n tiles of size t
PairOf(j, n, t, k) ==
    IF j = 0 \/ j = n - 1
    THEN [first |-> j \div 2, second |-> j \div 2, num |-> 1, den |-> 1]
    ELSE LET c == (j + 1) \div 2
             r == IF j % 2 = 1 THEN k - 1 ELSE t + k - 1
         IN  [first |-> c - 1, second |-> c, num |-> 2 * t - 1 - r, den |-> 2 * t - 1]

\* the bilinear blend of the LUTs of the row pair v and the column pair u at q
BlendOf(tbl, v, u, q) ==
    LET top == u.num * tbl[v.first + 1][u.first + 1][q]
                 + (u.den - u.num) * tbl[v.first + 1][u.second + 1][q]
        bottom == u.num * tbl[v.second + 1][u.first + 1][q]
                    + (u.den - u.num) * tbl[v.second + 1][u.second + 1][q]
    IN  (v.num * top + (v.den - v.num) * bottom) \div (u.den * v.den)

C8_BlendContinuous ==
    (interp_tiles # <<>> /\ luts # <<>>) =>
        LET gh == GridRows(interp_tiles)
            gw == GridCols(interp_tiles)
            th == TileHeight(interp_tiles)
            tw == TileWidth(interp_tiles)
            Out(j, i, y, x, q) == EqualizedPixel(luts, gh, gw, th, tw, j, i, y, x, q)
        IN  \* one ramp over the two tiles of a pair, from 1 down to 0
            /\ \A k \in 1..(GridRows(hist_tiles) - 1) :
                  /\ UpperIdx(2 * k - 1) = k - 1 /\ LowerIdx(2 * k - 1) = k
                  /\ UpperIdx(2 * k) = k - 1 /\ LowerIdx(2 * k) = k
                  /\ \A r \in 0..(th - 1) :
                        /\ WeightNum(th, WeightHalf(2 * k - 1), r + 1) = 2 * th - 1 - r
                        /\ WeightNum(th, WeightHalf(2 * k), r + 1) = 2 * th - 1 - (th + r)
                  /\ WeightNum(th, WeightHalf(2 * k - 1), 1) = WeightDen(th)
                  /\ WeightNum(th, WeightHalf(2 * k), th) = 0
            /\ \A k \in 1..(GridCols(hist_tiles) - 1) :
                  /\ UpperIdx(2 * k - 1) = k - 1 /\ LowerIdx(2 * k - 1) = k
                  /\ UpperIdx(2 * k) = k - 1 /\ LowerIdx(2 * k) = k
                  /\ \A r \in 0..(tw - 1) :
                        /\ WeightNum(tw, WeightHalf(2 * k - 1), r + 1) = 2 * tw - 1 - r
                        /\ WeightNum(tw, WeightHalf(2 * k), r + 1) = 2 * tw - 1 - (tw + r)
            \* both sides of the boundary inside statistics tile k: LUT row k alone
            \* (q: the raw values of the two pixels that face each other there)
            /\ \A k \in 0..(GridRows(hist_tiles) - 1), i \in 0..(gw - 1), x \in 1..tw :
                  \A q \in {(255 * interp_tiles[2 * k + 1][i + 1][th][x]) \div PixDen,
                            (255 * interp_tiles[2 * k + 2][i + 1][1][x]) \div PixDen} :
                     LET only == [first |-> k, second |-> k, num |-> 1, den |-> 1]
                         purely == BlendOf(luts, only, PairOf(i, gw, tw, x), q)
                     IN  /\ Out(2 * k, i, th, x, q) = purely
                         /\ Out(2 * k + 1, i, 1, x, q) = purely
            /\ \A k \in 0..(GridCols(hist_tiles) - 1), j \in 0..(gh - 1), y \in 1..th :
                  \A q \in {(255 * interp_tiles[j + 1][2 * k + 1][y][tw]) \div PixDen,
                            (255 * interp_tiles[j + 1][2 * k + 2][y][1]) \div PixDen} :
                     LET only == [first |-> k, second |-> k, num |-> 1, den |-> 1]
                         purely == BlendOf(luts, PairOf(j, gh, th, y), only, q)
                     IN  /\ Out(j, 2 * k, y, tw, q) = purely
                         /\ Out(j, 2 * k + 1, y, 1, q) = purely
            \* every equalized pixel is the blend of its pair with the ramp weights
            /\ equalized_tiles # <<>> =>
                  \A j \in 0..(gh - 1), i \in 0..(gw - 1), y \in 1..th, x \in 1..tw :
                      equalized_tiles[j + 1][i + 1][y][x] =
                          BlendOf(luts, PairOf(j, gh, th, y), PairOf(i, gw, tw, x),
                                  (255 * interp_tiles[j + 1][i + 1][y][x]) \div PixDen)

\* a 2 x 2 grid with query tiles of at least 2 x 2 pixels was equalized, and
\* some pixel of a query row pair got a value strictly between the values
\* of the two LUTs it blends
C8_Witness ==
    /\ equalized_tiles # <<>>
    /\ grid_size = <<2, 2>>
    /\ TileHeight(interp_tiles) >= 2 /\ TileWidth(interp_tiles) >= 2
    /\ \E j \in {1, 2}, y \in 1..TileHeight(interp_tiles), x \in 1..TileWidth(interp_tiles) :
          LET q == (255 * interp_tiles[j + 1][1][y][x]) \div PixDen
              v == equalized_tiles[j + 1][1][y][x]
          IN  \/ luts[1][1][q] < v /\ v < luts[2][1][q]
              \/ luts[2][1][q] < v /\ v < luts[1][1][q]

====
